---- MODULE Spec2Model ----
(***************************************************************************)
(* Model of trax/rl/actor_critic_joint.py: the joint policy-and-value      *)
(* trainers (ActorCriticJointTrainer, PPOJointTrainer, AWRJointTrainer).   *)
(*                                                                         *)
(* Two specifications share the variables below.                           *)
(*   Spec        the trainer object: construction, RL epochs,              *)
(*               train_epoch() and policy().                               *)
(*   SpecMetrics the PPO loss and metric layers evaluated on one batch.    *)
(*                                                                         *)
(* Numbers.  The layers compute on floats; the model computes on exact     *)
(* rationals <<n, d>> in lowest terms with d > 0.  The three non-finite    *)
(* floats are <<0, 0>> (NaN), <<1, 0>> (+inf) and <<-1, 0>> (-inf).        *)
(* Log-probabilities are integers in units of ln 2, so that exp() of a     *)
(* difference of log-probabilities is the exact rational 2^k.              *)
(***************************************************************************)
EXTENDS Integers, Sequences, FiniteSets, TLC

(* ------------------------------------------------------------------ *)
(* Bounds of the model                                                 *)
(* ------------------------------------------------------------------ *)
\* elements (batch x time positions) of one batch
BatchLen == 2
\* resolution of the square root in the advantage normalisation
StdScale == 4
\* RL epochs run
MaxEpoch == 3
\* largest train_steps_per_epoch (supervised_evals_per_epoch is at most it)
MaxStepsPerEpoch == 4
\* largest supervised_eval_steps
MaxEvalSteps == 2
\* largest step a trainer restores from a checkpoint in output_dir
MaxRestoredStep == 3
\* largest max_slice_length
MaxSliceLength == 2
\* longest trajectory handed to policy()
MaxTrajLen == 3
\* train_epoch() calls within one RL epoch
MaxCallsPerEpoch == 2

(* ------------------------------------------------------------------ *)
(* Rational arithmetic                                                 *)
(* ------------------------------------------------------------------ *)
Abs(x) == IF x < 0 THEN -x ELSE x

Sign(x) == IF x < 0 THEN -1 ELSE IF x > 0 THEN 1 ELSE 0

RECURSIVE GCD(_, _)
GCD(a, b) == IF b = 0 THEN a ELSE GCD(b, a % b)

\* n / d; a zero denominator gives NaN or a signed infinity, as float division
Rat(n, d) ==
  IF d = 0 THEN <<Sign(n), 0>>
  ELSE LET g == GCD(Abs(n), Abs(d))
           s == Sign(d)
       IN  <<(s * n) \div g, (s * d) \div g>>

RInt(n) == <<n, 1>>
NaN == <<0, 0>>

IsNaN(x) == x[1] = 0 /\ x[2] = 0

\* a non-finite operand: NaN stays NaN, an infinity absorbs a finite number,
\* two infinities add to themselves when of one sign and to NaN otherwise
RAdd(x, y) ==
  IF x[2] = 0 \/ y[2] = 0
  THEN IF x[2] # 0 THEN y
       ELSE IF y[2] # 0 THEN x
       ELSE IF x[1] = y[1] THEN x ELSE NaN
  ELSE Rat(x[1] * y[2] + y[1] * x[2], x[2] * y[2])
RNeg(x) == <<-x[1], x[2]>>
RSub(x, y) == RAdd(x, RNeg(y))
RMul(x, y) == Rat(x[1] * y[1], x[2] * y[2])
\* the sign of the divisor goes to the numerator, so that an infinity
\* divided by a negative number changes sign
RDiv(x, y) ==
  LET s == IF y[1] < 0 THEN -1 ELSE 1
  IN  Rat(s * x[1] * y[2], s * x[2] * y[1])
\* a comparison with NaN is false; two infinities compare by sign
RLe(x, y) ==
  IF IsNaN(x) \/ IsNaN(y) THEN FALSE
  ELSE IF x[2] = 0 /\ y[2] = 0 THEN x[1] <= y[1]
  ELSE x[1] * y[2] <= y[1] * x[2]
RLt(x, y) ==
  IF IsNaN(x) \/ IsNaN(y) THEN FALSE
  ELSE IF x[2] = 0 /\ y[2] = 0 THEN x[1] < y[1]
  ELSE x[1] * y[2] < y[1] * x[2]
\* jnp.minimum, jnp.maximum: NaN if either operand is
RMin(x, y) == IF IsNaN(x) \/ IsNaN(y) THEN NaN ELSE IF RLe(x, y) THEN x ELSE y
RMax(x, y) == IF IsNaN(x) \/ IsNaN(y) THEN NaN ELSE IF RLe(x, y) THEN y ELSE x
RAbs(x) == <<Abs(x[1]), x[2]>>

RECURSIVE RSumTo(_, _)
RSumTo(s, n) == IF n = 0 THEN RInt(0) ELSE RAdd(RSumTo(s, n - 1), s[n])

RSum(s) == RSumTo(s, Len(s))

\* jnp.mean over a flat sequence of rationals
Mean(s) == RDiv(RSum(s), RInt(Len(s)))

\* jnp.var: the population variance
Var(s) ==
  LET m == Mean(s)
  IN  Mean([i \in 1..Len(s) |-> RMul(RSub(s[i], m), RSub(s[i], m))] \o <<>>)

RECURSIVE ISqrtFrom(_, _)
ISqrtFrom(n, r) == IF (r + 1) * (r + 1) > n THEN r ELSE ISqrtFrom(n, r + 1)

ISqrt(n) == ISqrtFrom(n, 0)

\* jnp.std: sqrt(p/q) = sqrt(p*q)/q, the root taken to 1/StdScale; the root
\* of NaN or of an infinity is itself
Std(s) ==
  LET v == Var(s)
  IN  IF v[2] = 0 THEN v
      ELSE Rat(ISqrt(v[1] * v[2] * StdScale * StdScale), v[2] * StdScale)

\* 2^k for an integer k: exp of a log-probability difference
RECURSIVE Pow2(_)
Pow2(k) == IF k = 0 THEN RInt(1)
           ELSE IF k > 0 THEN RMul(RInt(2), Pow2(k - 1))
           ELSE RMul(Rat(1, 2), Pow2(k + 1))

(* ------------------------------------------------------------------ *)
(* Tensors: a batch tensor is a sequence of BatchLen rows.  A sequence  *)
(* built elementwise is concatenated with <<>>, which makes it a tuple  *)
(* whose elements are computed once.                                   *)
(* ------------------------------------------------------------------ *)
RECURSIVE Flatten(_)
Flatten(t) == IF t = <<>> THEN <<>> ELSE t[1] \o Flatten(Tail(t))

\* x.squeeze(): drops the trailing axis of length one
Squeeze(t) == [i \in 1..Len(t) |-> t[i][1]] \o <<>>

\* x - y with numpy broadcasting of a trailing axis of length one
BSub(x, y) ==
  [i \in 1..Len(x) |->
     LET k == IF Len(x[i]) >= Len(y[i]) THEN Len(x[i]) ELSE Len(y[i])
     IN  [j \in 1..k |->
            (IF Len(x[i]) = 1 THEN x[i][1] ELSE x[i][j])
          - (IF Len(y[i]) = 1 THEN y[i][1] ELSE y[i][j])]]

Ints(s) == [i \in 1..Len(s) |-> RInt(s[i])] \o <<>>

(* ------------------------------------------------------------------ *)
(* State                                                               *)
(* ------------------------------------------------------------------ *)
VARIABLES
  \* --- the trainer object (Spec) ---
  cls,          \* class of the trainer being constructed
  cfg,          \* constructor arguments kept on the object
  pc,           \* "new", "ready" or "failed" (the constructor raised)
  calls,        \* outcome of each overridable operation used by __init__
  epoch,        \* self._epoch
  trainers,     \* the supervised.Trainer objects: step and model_weights
  selfTrainer,  \* which of them self._trainer refers to
  evalWeights,  \* self._eval_model.weights
  hist,         \* what train_epoch() ran since the current epoch began
  lastPolicy,   \* what the last policy() call fed to the forward pass
  lastOp,       \* the operation that produced the current state
  \* --- one evaluation of the PPO layers (SpecMetrics) ---
  stack,        \* <<dist_inputs, values, returns, actions, old_log_probs, mask>>
  epsilon,      \* self._epsilon
  normalize_advantages,  \* self._normalize_advantages
  evaluated,    \* the layers have been applied to the stack
  out           \* their outputs

trainerVars == <<cls, cfg, pc, calls, epoch, trainers, selfTrainer,
                 evalWeights, hist, lastPolicy, lastOp>>
metricVars == <<stack, epsilon, normalize_advantages, evaluated, out>>
vars == <<trainerVars, metricVars>>

(* ------------------------------------------------------------------ *)
(* The distribution capability (distributions.create_distribution)     *)
(* ------------------------------------------------------------------ *)
\* the action space: actions are 0-based indices into a row of dist_inputs
ActionSpace == {0, 1}

\* log_prob(params, point): the entry of each row selected by the point;
\* a point outside the action space selects nothing (one-hot of no category)
log_prob(dist_inputs, actions) ==
  [i \in 1..Len(dist_inputs) |->
     IF actions[i] \in ActionSpace THEN dist_inputs[i][actions[i] + 1] ELSE 0]

\* entropy(params): -sum_a p_a * log p_a with p_a = 2^row[a]
entropy(dist_inputs) ==
  [i \in 1..Len(dist_inputs) |->
     RNeg(RSum([a \in 1..Len(dist_inputs[i]) |->
                  RMul(Pow2(dist_inputs[i][a]), RInt(dist_inputs[i][a]))]))]

(* ------------------------------------------------------------------ *)
(* ObjectiveLibrary (trax.rl.rl_layers)                                 *)
(* ------------------------------------------------------------------ *)
\* exp(log_prob_fn(dist_params, actions) - old_log_probs)
ProbsRatio(dist_inputs, actions, old_log_probs) ==
  LET new == log_prob(dist_inputs, actions)
  IN  [i \in 1..Len(new) |-> Pow2(new[i] - old_log_probs[i])] \o <<>>

\* ratio * advantage
UnclippedObjective(probs_ratio, advantages) ==
  [i \in 1..Len(probs_ratio) |-> RMul(probs_ratio[i], advantages[i])] \o <<>>

\* clamp(ratio, 1 - epsilon, 1 + epsilon) * advantage
ClippedObjective(probs_ratio, advantages, eps) ==
  [i \in 1..Len(probs_ratio) |->
     RMul(RMax(RSub(RInt(1), eps), RMin(probs_ratio[i], RAdd(RInt(1), eps))),
          advantages[i])] \o <<>>

\* subtract the batch mean, divide by the batch standard deviation plus a
\* small constant: the constant is below the model's resolution and only
\* decides the degenerate batch, where 0 / constant = 0
NormalizeAdvantages(advantages) ==
  LET m == Mean(advantages)
      sd == Std(advantages)
  IN  [i \in 1..Len(advantages) |->
         IF sd = RInt(0) THEN RInt(0) ELSE RDiv(RSub(advantages[i], m), sd)] \o <<>>

\* returns - values, squeezed, optionally normalised
Advantages(values, returns, normalize) ==
  LET adv == Ints(Squeeze(BSub(returns, values)))
  IN  IF normalize THEN NormalizeAdvantages(adv) ELSE adv

\* per element min(UnclippedObjective, ClippedObjective)
PPOObjective(dist_inputs, values, returns, actions, old_log_probs, eps, normalize) ==
  LET probs_ratio == ProbsRatio(dist_inputs, actions, old_log_probs)
      advantages == Advantages(values, returns, normalize)
      unclipped == UnclippedObjective(probs_ratio, advantages)
      clipped == ClippedObjective(probs_ratio, advantages, eps)
  IN  [i \in 1..Len(unclipped) |-> RMin(unclipped[i], clipped[i])] \o <<>>

\* entropy_coeff * mean(entropy_fn(dist_params))
EntropyLoss(dist_inputs, actions, entropy_coeff) ==
  RMul(entropy_coeff, Mean(entropy(dist_inputs)))

\* coeff * mean((returns - values)^2)
ValueLoss(values, returns, value_loss_coeff) ==
  LET d == Flatten(BSub(returns, values))
  IN  RMul(value_loss_coeff, Mean([i \in 1..Len(d) |-> RInt(d[i] * d[i])]))

\* mean(old_log_probs - log_prob_fn(dist_params, actions))
ApproximateKLDivergence(dist_inputs, actions, old_log_probs) ==
  LET new == log_prob(dist_inputs, actions)
  IN  Mean([i \in 1..Len(new) |-> RInt(old_log_probs[i] - new[i])])

\* 1 - var(returns - values) / var(returns); a zero variance of the returns
\* divides by zero and gives NaN or an infinity
ExplainedVariance(values, returns) ==
  LET q == RDiv(Var(Ints(Flatten(BSub(returns, values)))),
                Var(Ints(Flatten(returns))))
  IN  RSub(RInt(1), q)

(* ------------------------------------------------------------------ *)
(* PPOJointTrainer: the loss and the metric layers                     *)
(* A layer tl.Fn(f, n_in=k) applied to the stack                       *)
(*   <<dist_inputs, values, returns, actions, old_log_probs, mask>>    *)
(* binds the parameters of f, in order, to the first k stack items.    *)
(* ------------------------------------------------------------------ *)
\* PPOJointTrainer.__init__ defaults
ValueLossCoeff == Rat(1, 10)
EntropyCoeff == Rat(1, 100)

\* the mask weighs the objective (the open TODO in PPOJointLoss, carried out)
PPOJointLossMasked(dist_inputs, values, returns, actions, old_log_probs, mask) ==
  LET ppo == PPOObjective(dist_inputs, values, returns, actions, old_log_probs,
                          epsilon, normalize_advantages)
  IN  RSub(RAdd(RNeg(Mean([i \in 1..Len(ppo) |-> RMul(ppo[i], RInt(mask[i]))])),
                ValueLoss(values, returns, ValueLossCoeff)),
           EntropyLoss(dist_inputs, actions, EntropyCoeff))

\* del mask; -ppo_objective.mean() + l2_value_loss - entropy_loss
PPOJointLoss(dist_inputs, values, returns, actions, old_log_probs, mask) ==
  LET ppo_objective ==
        PPOObjective(dist_inputs, values, returns, actions, old_log_probs,
                     epsilon, normalize_advantages)
      entropy_loss == EntropyLoss(dist_inputs, actions, EntropyCoeff)
      l2_value_loss == ValueLoss(values, returns, ValueLossCoeff)
  IN  RSub(RAdd(RNeg(Mean(ppo_objective)), l2_value_loss), entropy_loss)

\* tl.Fn(PPOJointLoss, n_in=6)
joint_loss(s) == PPOJointLoss(s[1], s[2], s[3], s[4], s[5], s[6])

\* the comparison admits the boundary
ClipFractionInclusive(dist_inputs, actions, old_log_probs) ==
  LET probs_ratio == ProbsRatio(dist_inputs, actions, old_log_probs)
  IN  Mean([i \in 1..Len(probs_ratio) |->
              IF RLe(epsilon, RAbs(RSub(probs_ratio[i], RInt(1))))
              THEN RInt(1) ELSE RInt(0)])

\* jnp.mean(jnp.abs(probs_ratio - 1) > self._epsilon)
ClipFraction(dist_inputs, actions, old_log_probs) ==
  LET probs_ratio == ProbsRatio(dist_inputs, actions, old_log_probs)
  IN  Mean([i \in 1..Len(probs_ratio) |->
              IF RLt(epsilon, RAbs(RSub(probs_ratio[i], RInt(1))))
              THEN RInt(1) ELSE RInt(0)])

\* tl.Fn(lambda dist_inputs, values, returns, actions, old_log_probs:
\*         ClipFraction(dist_inputs, actions, old_log_probs), n_in=5)
clip_fraction(s) == ClipFraction(s[1], s[4], s[5])

\* tl.Fn(lambda dist_inputs, actions, old_log_probs:
\*         ApproximateKLDivergence(dist_inputs, actions, old_log_probs), n_in=3):
\* the three parameters receive stack items 1 to 3, that is dist_inputs,
\* values and returns (their trailing axis of length one dropped, the
\* model's log_prob and subtraction being elementwise)
approximate_kl_divergence(s) ==
  ApproximateKLDivergence(s[1], Squeeze(s[2]), Squeeze(s[3]))

\* tl.Fn(rl_layers.ExplainedVariance, n_in=2): ExplainedVariance(values,
\* returns) receives stack items 1 and 2, that is dist_inputs and values
explained_variance(s) == ExplainedVariance(s[1], s[2])

\* values and returns change places
ppo_objective_swapped(s) ==
  PPOObjective(s[1], s[3], s[2], s[4], s[5], epsilon, normalize_advantages)

\* tl.Fn(lambda dist_inputs, values, returns, actions, old_log_probs:
\*         PPOObjective(dist_inputs, values, returns, actions, old_log_probs,
\*                      ...), n_in=5)
ppo_objective(s) ==
  PPOObjective(s[1], s[2], s[3], s[4], s[5], epsilon, normalize_advantages)

(* ------------------------------------------------------------------ *)
(* SpecMetrics: one batch through the PPO layers                       *)
(* ------------------------------------------------------------------ *)
\* rows of log-probabilities (units of ln 2) the model outputs: the uniform
\* policy, and one preferring the first action
DistRows == {<<-1, -1>>, <<0, -2>>}
\* a value output with its return target, each of shape (1,)
ValueReturns == {<<(<<0>>), (<<0>>)>>, <<(<<0>>), (<<1>>)>>, <<(<<1>>), (<<0>>)>>}
\* log-probability of the taken action under the collecting policy, which
\* is uniform over the two actions
OldLogProbs == {-1}
\* clip ranges: each has a ratio 2^k on a boundary of [1 - epsilon, 1 + epsilon]
Epsilons == {Rat(0, 1), Rat(1, 2), Rat(1, 1)}
\* padding masks: no padding, or the last position padded
PaddingMasks ==
  {[i \in 1..BatchLen |-> IF i <= k THEN 1 ELSE 0] : k \in {BatchLen - 1, BatchLen}}

Stacks ==
  {<<d, [i \in 1..BatchLen |-> vr[i][1]], [i \in 1..BatchLen |-> vr[i][2]], a, o, m>> :
     d \in [1..BatchLen -> DistRows], vr \in [1..BatchLen -> ValueReturns],
     a \in [1..BatchLen -> ActionSpace], o \in [1..BatchLen -> OldLogProbs],
     m \in PaddingMasks}

NoOutputs ==
  [joint_loss |-> NaN, clip_fraction |-> NaN, approximate_kl_divergence |-> NaN,
   explained_variance |-> NaN, ppo_objective |-> <<>>]

\* the engine applies the loss and the published metrics to the stack
Evaluate ==
  /\ ~evaluated
  /\ evaluated' = TRUE
  /\ out' = [joint_loss |-> joint_loss(stack),
             clip_fraction |-> clip_fraction(stack),
             approximate_kl_divergence |-> approximate_kl_divergence(stack),
             explained_variance |-> explained_variance(stack),
             ppo_objective |-> ppo_objective(stack)]
  /\ UNCHANGED <<stack, epsilon, normalize_advantages, trainerVars>>

(* ------------------------------------------------------------------ *)
(* ActorCriticJointTrainer and its variants: the trainer object        *)
(* ------------------------------------------------------------------ *)
Base == "ActorCriticJointTrainer"
PPO == "PPOJointTrainer"
AWR == "AWRJointTrainer"

\* the metric accessors of the base class
MetricAccessors ==
  {"advantage_mean", "advantage_norm", "value_loss", "explained_variance",
   "log_probs_mean", "preferred_move"}

\* batches_stream() as class c resolves it: the base returns the exception
\* class, the variants are generator functions
batches_stream(c) ==
  IF c = Base THEN [outcome |-> "returned", value |-> "NotImplementedError"]
  ELSE [outcome |-> "returned", value |-> "generator"]

\* the joint_loss property as class c resolves it
joint_loss_property(c) ==
  IF c = Base THEN [outcome |-> "returned", value |-> "NotImplementedError"]
  ELSE [outcome |-> "returned", value |-> "layer"]

\* a metric accessor of the base class, which no variant overrides:
\* builds a tl.Fn layer and returns a function yielding it
metric_property(c, name) == [outcome |-> "returned", value |-> "layer"]

\* next(x) of Python: only an iterator has a next item
PyNext(x) ==
  IF x.value = "generator" THEN [outcome |-> "returned", value |-> "batch"]
  ELSE [outcome |-> "raised", value |-> "TypeError"]

\* trajectory[-k:] of Python: the last k items, all of them when k = 0
\* (-0 is 0) or when k exceeds the length
SliceLast(seq, k) ==
  IF k = 0 \/ k >= Len(seq) THEN seq
  ELSE SubSeq(seq, Len(seq) - k + 1, Len(seq))

\* supervised.Trainer(...): a trainer restores its step and weights from
\* output_dir; weights are identified by the number of updates applied
NewTrainer(restored) == [made |-> TRUE, step |-> restored, model_weights |-> restored]
NoTrainer == [made |-> FALSE, step |-> 0, model_weights |-> 0]

\* supervised.Trainer.train_epoch(n_steps, n_eval_steps)
TrainerTrainEpoch(t, n_steps, n_eval_steps) ==
  [t EXCEPT !.step = @ + n_steps, !.model_weights = @ + n_steps]

\* rl_training.remaining_evals: the chunks of train_steps_per_epoch //
\* evals_per_epoch steps not yet executed in the epoch, clamped to
\* [0, evals_per_epoch]
remaining_evals(cur_step, ep, train_steps_per_epoch, evals_per_epoch) ==
  LET chunk == train_steps_per_epoch \div evals_per_epoch
      done == cur_step - (ep - 1) * train_steps_per_epoch
      left == evals_per_epoch - (done \div chunk)
  IN  IF left < 0 THEN 0 ELSE IF left > evals_per_epoch THEN evals_per_epoch ELSE left

\* one pass too many
LoopCountOffByOne(n_evals) == IF n_evals + 1 > 0 THEN n_evals + 1 ELSE 0

\* for _ in range(n_evals): the number of passes
LoopCount(n_evals) == IF n_evals > 0 THEN n_evals ELSE 0

\* the whole epoch budget in every chunk
StepsPerEvalUndivided(c) == c.train_steps_per_epoch

\* self._train_steps_per_epoch // self._supervised_evals_per_epoch
StepsPerEval(c) == c.train_steps_per_epoch \div c.supervised_evals_per_epoch

\* the loop of train_epoch(): k runs of the training engine
RECURSIVE RunChunks(_, _, _, _)
RunChunks(t, k, n_steps, n_eval_steps) ==
  IF k = 0 THEN t
  ELSE RunChunks(TrainerTrainEpoch(t, n_steps, n_eval_steps), k - 1,
                 n_steps, n_eval_steps)

\* the weights the evaluation model was left with by the previous call
PolicyWeightsStale == evalWeights

\* model.weights = self._trainer.model_weights
PolicyWeights == trainers[selfTrainer].model_weights

NoHist == [startStep |-> 0, calls |-> 0, runs |-> <<>>, lastChunks |-> 0]
NoPolicy == [trajectory |-> <<>>, fed |-> <<>>, weights |-> 0]
NoCalls == [n \in MetricAccessors \cup {"joint_loss", "batches_stream", "next"} |->
              [outcome |-> "none", value |-> "none"]]

\* constructor arguments: a chunk of train_steps_per_epoch //
\* supervised_evals_per_epoch steps has at least one step, and
\* max_slice_length is at least 1 (its default)
Configs ==
  {c \in [train_steps_per_epoch : 1..MaxStepsPerEpoch,
          supervised_evals_per_epoch : 1..MaxStepsPerEpoch,
          supervised_eval_steps : 1..MaxEvalSteps,
          max_slice_length : 1..MaxSliceLength,
          restored : 0..MaxRestoredStep] :
     c.supervised_evals_per_epoch <= c.train_steps_per_epoch}

\* ActorCriticJointTrainer.__init__, reached directly or through the
\* __init__ of a variant, which for PPO goes on to build a second engine
Construct ==
  /\ pc = "new"
  /\ LET stream == batches_stream(cls)
         example_batch == PyNext(stream)
     IN  /\ calls' = [n \in DOMAIN calls |->
                        IF n = "joint_loss" THEN joint_loss_property(cls)
                        ELSE IF n = "batches_stream" THEN stream
                        ELSE IF n = "next" THEN example_batch
                        ELSE metric_property(cls, n)]
         /\ pc' = IF example_batch.outcome = "raised" THEN "failed" ELSE "ready"
         /\ trainers' =
              [base |-> NewTrainer(cfg.restored),
               ppo |-> IF cls = PPO /\ example_batch.outcome # "raised"
                       THEN NewTrainer(cfg.restored) ELSE NoTrainer]
         /\ selfTrainer' =
              IF cls = PPO /\ example_batch.outcome # "raised" THEN "ppo" ELSE "base"
  /\ lastOp' = "__init__"
  /\ UNCHANGED <<cls, cfg, epoch, evalWeights, hist, lastPolicy, metricVars>>

\* RLTrainer.run: self._epoch += 1, before train_epoch() and the collection
BeginEpoch ==
  /\ pc = "ready"
  /\ epoch < MaxEpoch
  /\ epoch' = epoch + 1
  /\ hist' = [NoHist EXCEPT !.startStep = trainers[selfTrainer].step]
  /\ lastOp' = "run"
  /\ UNCHANGED <<cls, cfg, pc, calls, trainers, selfTrainer, evalWeights,
                 lastPolicy, metricVars>>

\* ActorCriticJointTrainer.train_epoch
TrainEpoch ==
  /\ pc = "ready"
  /\ hist.calls < MaxCallsPerEpoch
  /\ LET n_evals == remaining_evals(trainers[selfTrainer].step, epoch,
                                    cfg.train_steps_per_epoch,
                                    cfg.supervised_evals_per_epoch)
         k == LoopCount(n_evals)
     IN  /\ trainers' =
              [trainers EXCEPT ![selfTrainer] =
                 RunChunks(@, k, StepsPerEval(cfg), cfg.supervised_eval_steps)]
         /\ hist' =
              [hist EXCEPT
                 !.calls = @ + 1,
                 !.lastChunks = k,
                 !.runs = @ \o [i \in 1..k |->
                                  <<StepsPerEval(cfg), cfg.supervised_eval_steps>>]]
  /\ lastOp' = "train_epoch"
  /\ UNCHANGED <<cls, cfg, pc, calls, epoch, selfTrainer, evalWeights,
                 lastPolicy, metricVars>>

\* ActorCriticJointTrainer.policy, on a trajectory of len timesteps
Policy(len) ==
  /\ pc = "ready"
  /\ LET trajectory == [i \in 1..len |-> i]
     IN  /\ evalWeights' = PolicyWeights
         /\ lastPolicy' = [trajectory |-> trajectory,
                           fed |-> SliceLast(trajectory, cfg.max_slice_length),
                           weights |-> evalWeights']
  /\ lastOp' = "policy"
  /\ UNCHANGED <<cls, cfg, pc, calls, epoch, trainers, selfTrainer, hist,
                 metricVars>>

(* ------------------------------------------------------------------ *)
(* Specifications                                                      *)
(* ------------------------------------------------------------------ *)
DefaultStack ==
  <<[i \in 1..BatchLen |-> <<-1, -1>>], [i \in 1..BatchLen |-> <<0>>],
    [i \in 1..BatchLen |-> <<0>>], [i \in 1..BatchLen |-> 0],
    [i \in 1..BatchLen |-> -1], [i \in 1..BatchLen |-> 1]>>

InitTrainer ==
  /\ cls \in {Base, PPO, AWR}
  /\ cfg \in Configs
  /\ pc = "new"
  /\ calls = NoCalls
  /\ epoch = 0
  /\ trainers = [base |-> NoTrainer, ppo |-> NoTrainer]
  /\ selfTrainer = "base"
  /\ evalWeights = -1
  /\ hist = NoHist
  /\ lastPolicy = NoPolicy
  /\ lastOp = "none"

Init ==
  /\ InitTrainer
  /\ stack = DefaultStack
  /\ epsilon = Rat(1, 2)
  /\ normalize_advantages = TRUE
  /\ evaluated = FALSE
  /\ out = NoOutputs

Next ==
  \/ Construct
  \/ BeginEpoch
  \/ TrainEpoch
  \/ \E len \in 1..MaxTrajLen : Policy(len)

Spec == Init /\ [][Next]_vars

InitMetrics ==
  /\ cls = PPO
  /\ cfg = [train_steps_per_epoch |-> 1, supervised_evals_per_epoch |-> 1,
            supervised_eval_steps |-> 1, max_slice_length |-> 1, restored |-> 0]
  /\ pc = "ready"
  /\ calls = NoCalls
  /\ epoch = 0
  /\ trainers = [base |-> NewTrainer(0), ppo |-> NewTrainer(0)]
  /\ selfTrainer = "ppo"
  /\ evalWeights = -1
  /\ hist = NoHist
  /\ lastPolicy = NoPolicy
  /\ lastOp = "__init__"
  /\ stack \in Stacks
  /\ epsilon \in Epsilons
  /\ normalize_advantages \in BOOLEAN
  /\ evaluated = FALSE
  /\ out = NoOutputs

NextMetrics == Evaluate

SpecMetrics == InitMetrics /\ [][NextMetrics]_vars

(* ------------------------------------------------------------------ *)
(* Properties of the trainer object (Spec)                             *)
(* ------------------------------------------------------------------ *)
\* the current epoch began with the trainer step on the epoch boundary, and
\* the steps of an epoch divide evenly into its evaluations
AlignedEpoch ==
  /\ pc = "ready"
  /\ epoch >= 1
  /\ cfg.train_steps_per_epoch % cfg.supervised_evals_per_epoch = 0
  /\ hist.startStep = (epoch - 1) * cfg.train_steps_per_epoch

\* C1: in an epoch >= 1 that began on the epoch boundary, with
\* train_steps_per_epoch divisible by supervised_evals_per_epoch, the
\* train_epoch() calls made so far (one or more) have run the training engine
\* exactly supervised_evals_per_epoch times in total, each run being
\* train_steps_per_epoch / supervised_evals_per_epoch training steps
\* followed by supervised_eval_steps evaluation steps.
C1_ExactEvalsPerEpoch ==
  (AlignedEpoch /\ hist.calls >= 1) =>
    /\ Len(hist.runs) = cfg.supervised_evals_per_epoch
    /\ \A i \in 1..Len(hist.runs) :
         hist.runs[i] =
           <<cfg.train_steps_per_epoch \div cfg.supervised_evals_per_epoch,
             cfg.supervised_eval_steps>>
    /\ trainers[selfTrainer].step = epoch * cfg.train_steps_per_epoch

\* C1 witness: train_epoch() was called twice within a later epoch that has
\* several evaluations, and the engine ran exactly that many times.
C1_Witness ==
  /\ AlignedEpoch
  /\ epoch >= 2
  /\ hist.calls = 2
  /\ cfg.supervised_evals_per_epoch >= 2
  /\ Len(hist.runs) = cfg.supervised_evals_per_epoch

\* C5: whatever the trainer step, the epoch and the configuration, one
\* train_epoch() call executes between 0 and supervised_evals_per_epoch
\* chunks, also when the step is ahead of or behind the epoch's window.
C5_ChunksWithinBounds ==
  /\ hist.lastChunks \in 0..cfg.supervised_evals_per_epoch
  /\ Len(hist.runs) <= hist.calls * cfg.supervised_evals_per_epoch

\* C5 witness: the epoch began with the trainer step behind its boundary,
\* and the train_epoch() call ran the full supervised_evals_per_epoch chunks.
C5_Witness ==
  /\ lastOp = "train_epoch"
  /\ epoch >= 2
  /\ hist.startStep < (epoch - 1) * cfg.train_steps_per_epoch
  /\ hist.calls = 1
  /\ hist.lastChunks = cfg.supervised_evals_per_epoch

\* C6: a policy(trajectory) call runs the forward pass with the weights the
\* training engine holds at the call, and feeds it the last
\* max_slice_length timesteps of the trajectory (all of a shorter one).
C6_PolicyUsesCurrentWeights ==
  lastOp = "policy" =>
    LET len == Len(lastPolicy.trajectory)
        k == IF cfg.max_slice_length < len THEN cfg.max_slice_length ELSE len
    IN  /\ lastPolicy.weights = trainers[selfTrainer].model_weights
        /\ evalWeights = trainers[selfTrainer].model_weights
        /\ lastPolicy.fed = [i \in 1..k |-> lastPolicy.trajectory[len - k + i]]

\* C6 witness: policy() is called on the PPO trainer after training steps
\* were made, on a trajectory longer than max_slice_length.
C6_Witness ==
  /\ lastOp = "policy"
  /\ cls = PPO
  /\ trainers[selfTrainer].model_weights > cfg.restored
  /\ Len(lastPolicy.trajectory) > cfg.max_slice_length
  /\ Len(lastPolicy.fed) = cfg.max_slice_length

\* C3: batches_stream() called on the base ActorCriticJointTrainer ends in a
\* Not-Implemented error and returns no value to its caller.
C3_BaseBatchesStreamRaises ==
  (cls = Base /\ calls["batches_stream"].outcome # "none") =>
    calls["batches_stream"] = [outcome |-> "raised", value |-> "NotImplementedError"]

\* C4: on the base ActorCriticJointTrainer, accessing joint_loss or a metric
\* accessor ends in a Not-Implemented error rather than yielding a loss or a
\* metric.
C4_BaseAccessorsRaise ==
  cls = Base =>
    \A n \in MetricAccessors \cup {"joint_loss"} :
      calls[n].outcome # "none" =>
        calls[n] = [outcome |-> "raised", value |-> "NotImplementedError"]

(* ------------------------------------------------------------------ *)
(* Properties of the PPO layers (SpecMetrics)                          *)
(* ------------------------------------------------------------------ *)
\* the probability ratios of the batch
Ratios == ProbsRatio(stack[1], stack[4], stack[5])

\* the advantages the objectives are computed from
Advs == Advantages(stack[2], stack[3], normalize_advantages)

Lower == RSub(RInt(1), epsilon)
Upper == RAdd(RInt(1), epsilon)

\* C2, as stated: per element, PPOObjective <= UnclippedObjective when the
\* advantage is >= 0, and PPOObjective >= UnclippedObjective when it is < 0.
C2_ConservativeBySign ==
  evaluated =>
    \A i \in 1..BatchLen :
      LET u == RMul(Ratios[i], Advs[i])
          p == out.ppo_objective[i]
      IN  /\ Advs[i][1] >= 0 => RLe(p, u)
          /\ Advs[i][1] < 0 => RLe(u, p)

\* C2, amended: per element, PPOObjective <= UnclippedObjective whatever the
\* sign of the advantage; with a negative advantage it equals
\* UnclippedObjective when ratio >= 1 - epsilon and is strictly below it
\* when ratio < 1 - epsilon.
C2_NeverAboveUnclipped ==
  evaluated =>
    \A i \in 1..BatchLen :
      LET u == RMul(Ratios[i], Advs[i])
          p == out.ppo_objective[i]
      IN  /\ RLe(p, u)
          /\ (Advs[i][1] < 0 /\ RLe(Lower, Ratios[i])) => p = u
          /\ (Advs[i][1] < 0 /\ RLt(Ratios[i], Lower)) => RLt(p, u)

\* C2 witness: an element with a negative advantage and a ratio below
\* 1 - epsilon, whose PPOObjective is strictly below its UnclippedObjective.
C2_Witness ==
  /\ evaluated
  /\ \E i \in 1..BatchLen :
       /\ Advs[i][1] < 0
       /\ RLt(Ratios[i], Lower)
       /\ RLt(out.ppo_objective[i], RMul(Ratios[i], Advs[i]))

\* C7: clip_fraction is the fraction of elements with |ratio - 1| > epsilon;
\* it is 0 when every ratio lies in [1 - epsilon, 1 + epsilon], boundaries
\* included, and 1 when every ratio lies strictly outside.
C7_ClipFraction ==
  evaluated =>
    LET within(i) == RLe(Lower, Ratios[i]) /\ RLe(Ratios[i], Upper)
        outside(i) == RLt(Ratios[i], Lower) \/ RLt(Upper, Ratios[i])
        clipped == {i \in 1..BatchLen :
                      RLt(epsilon, RAbs(RSub(Ratios[i], RInt(1))))}
    IN  /\ out.clip_fraction = Rat(Cardinality(clipped), BatchLen)
        /\ (\A i \in 1..BatchLen : within(i)) => out.clip_fraction = RInt(0)
        /\ (\A i \in 1..BatchLen : outside(i)) => out.clip_fraction = RInt(1)

\* C7 witness: every ratio lies within the interval, one of them on its
\* boundary and different from 1, and clip_fraction is 0.
C7_Witness ==
  /\ evaluated
  /\ \A i \in 1..BatchLen : RLe(Lower, Ratios[i]) /\ RLe(Ratios[i], Upper)
  /\ \E i \in 1..BatchLen :
       Ratios[i] # RInt(1) /\ (Ratios[i] = Lower \/ Ratios[i] = Upper)
  /\ out.clip_fraction = RInt(0)

\* C8: the PPO joint loss is -mean(PPOObjective) + ValueLoss - EntropyLoss of
\* the batch without its mask, and a batch that differs only in its mask has
\* the same loss.
C8_LossIgnoresMask ==
  evaluated =>
    /\ out.joint_loss =
         RSub(RAdd(RNeg(Mean(PPOObjective(stack[1], stack[2], stack[3], stack[4],
                                          stack[5], epsilon, normalize_advantages))),
                   ValueLoss(stack[2], stack[3], ValueLossCoeff)),
              EntropyLoss(stack[1], stack[4], EntropyCoeff))
    /\ \A m \in PaddingMasks \ {stack[6]} :
         joint_loss(<<stack[1], stack[2], stack[3], stack[4], stack[5], m>>)
           = out.joint_loss

\* C8 witness: the loss was computed for a batch whose last position is
\* padding and has a non-zero PPO objective.
C8_Witness ==
  /\ evaluated
  /\ stack[6][BatchLen] = 0
  /\ out.ppo_objective[BatchLen][1] # 0
  /\ out.joint_loss[2] # 0

\* C9: the 'approximate_kl_divergence' metric of the stack is
\* mean(old_log_probs - log_prob(dist_inputs, actions)), from the batch's
\* actions and old_log_probs.
C9_KLFromActionsAndOldLogProbs ==
  evaluated =>
    out.approximate_kl_divergence =
      ApproximateKLDivergence(stack[1], stack[4], stack[5])

\* C10: the 'explained_variance' metric of the stack is ExplainedVariance of
\* the model's value output and the batch's return target.
C10_ExplainedVarianceOfValuesAndReturns ==
  evaluated =>
    out.explained_variance = ExplainedVariance(stack[2], stack[3])

====
